---- MODULE Spec2Model ----
(***************************************************************************)
(* A model of qiskit_machine_learning: the circuit-backed sampling neural  *)
(* network (CircuitQNN), the torch connector around it and the L1/L2 loss  *)
(* functions.                                                              *)
(*                                                                         *)
(* Python values are modelled as tagged records:                           *)
(*   None                      [tag |-> "None"]                            *)
(*   a list / tuple            [tag |-> "list", val |-> <<...>>]           *)
(*   a callable interpret      [tag |-> "fn", table |-> [0..2^n-1 -> key]] *)
(*   an int key k              [kind |-> "int", val |-> <<k>>]             *)
(*   a tuple key (a, b)        [kind |-> "tuple", val |-> <<a, b>>]        *)
(* Floating-point probabilities v / shots are exact rationals <<num, den>>.*)
(***************************************************************************)
EXTENDS Integers, Sequences, FiniteSets, TLC

VARIABLES
    qnn,              \* the CircuitQNN object under use (NoNet before construction)
    backend_options,  \* quantum_instance.backend_options (shared, mutable)
    call,             \* the last operation: its name, inputs and outcome
    ctx,              \* the autograd context of the torch function
    stats             \* how often qnn.forward / qnn.backward / execute were entered

vars == <<qnn, backend_options, call, ctx, stats>>

---------------------------------------------------------------------------
(* Bounds of the model *)

MaxQubits == 2
MaxParams == 1
MaxShots == 2

---------------------------------------------------------------------------
(* Python values *)

None == [tag |-> "None"]
List(s) == [tag |-> "list", val |-> s]
IsNone(v) == v.tag = "None"

IntKey(k) == [kind |-> "int", val |-> <<k>>]
TupleKey(t) == [kind |-> "tuple", val |-> t]

Pow2(n) == 2 ^ n

RECURSIVE SeqSum(_)
SeqSum(s) == IF s = <<>> THEN 0 ELSE Head(s) + SeqSum(Tail(s))

RECURSIVE SetSum(_, _)
\* the sum of f[x] over x in S
SetSum(f, S) ==
    IF S = {} THEN 0
    ELSE LET x == CHOOSE y \in S : TRUE IN f[x] + SetSum(f, S \ {x})

SeqsUpTo(S, n) == UNION {[1..k -> S] : k \in 0..n}

Range(s) == {s[i] : i \in DOMAIN s}

\* F applied to the value of x, x evaluated once
Bind(x, F(_)) == CHOOSE y \in {F(v) : v \in {x}} : TRUE

---------------------------------------------------------------------------
(* Outcomes of a call: a value, or the exception that left it *)

Ok(v) == [err |-> "", val |-> v]
Raise(e) == [err |-> e, val |-> None]

NoNet == [tag |-> "NoNet"]
NoCall == [op |-> "none", arg |-> None, out |-> Ok(None)]
Call(op, arg, out) == [op |-> op, arg |-> arg, out |-> out]

NoCtx == [saved |-> FALSE, input |-> <<>>, weights |-> <<>>]
NoStats == [forward |-> 0, backward |-> 0, execute |-> 0]

---------------------------------------------------------------------------
(* CircuitQNN.__init__ *)

ParamNames == {"a", "b"}

\* a QuantumCircuit: its qubits, free parameters and classical bits
Circuits ==
    [num_qubits : 1..MaxQubits, parameters : SUBSET ParamNames, num_clbits : {0, 1}]

\* Optional[List[Parameter]]
ParamLists == {None} \cup {List(s) : s \in SeqsUpTo(ParamNames, MaxParams)}

\* the quantum_instance argument: None (the default), a bare backend, or a
\* QuantumInstance on a statevector or a shot-sampling backend
QuantumInstances ==
    {[kind |-> "None", is_statevector |-> FALSE],
     [kind |-> "Backend", is_statevector |-> FALSE],
     [kind |-> "QuantumInstance", is_statevector |-> TRUE],
     [kind |-> "QuantumInstance", is_statevector |-> FALSE]}

\* interpret callables on n qubits: k % 2, k // 2, the constant 0, and the
\* tuple-valued (k % 2, k // 2 % 2) and (k % 2, 0)
InterpretFns(n) ==
    LET K == 0..(Pow2(n) - 1) IN
    {[tag |-> "fn", table |-> [k \in K |-> IntKey(k % 2)]],
     [tag |-> "fn", table |-> [k \in K |-> IntKey(k \div 2)]],
     [tag |-> "fn", table |-> [k \in K |-> IntKey(0)]],
     [tag |-> "fn", table |-> [k \in K |-> TupleKey(<<k % 2, (k \div 2) % 2>>)]],
     [tag |-> "fn", table |-> [k \in K |-> TupleKey(<<k % 2, 0>>)]]}

Interprets(n) == {None} \cup InterpretFns(n)

\* output_shape arguments: None or a tuple of positive integers
OutputShapes ==
    {None} \cup {List(<<1>>), List(<<2>>), List(<<2, 2>>)}

\* Python truthiness of an output_shape argument (None and () are falsy)
Truthy(v) == ~IsNone(v) /\ v.val # <<>>

\* list(x): a TypeError on None
PyList(v) == IF IsNone(v) THEN Raise("TypeError") ELSE Ok(v.val)

\* x or []
OrEmpty(v) == IF IsNone(v) \/ v.val = <<>> THEN <<>> ELSE v.val

\* lines 70-75: the stored copy gets measurements on a shot backend when it has
\* none and loses them on a statevector backend
CopyCircuit(circuit, quantum_instance) ==
    IF quantum_instance.is_statevector
    THEN [circuit EXCEPT !.num_clbits = 0]
    ELSE IF circuit.num_clbits = 0
         THEN [circuit EXCEPT !.num_clbits = circuit.num_qubits]
         ELSE circuit

\* lines 80-84 alone: the shape rule without the check of lines 85-88
OutputShapeUnchecked(circuit, return_samples, interpret, output_shape) ==
    Ok(IF return_samples
       THEN (IF Truthy(output_shape) THEN output_shape ELSE List(<<1>>))
       ELSE List(<<Pow2(circuit.num_qubits)>>))

\* the shape rule with (1,) for every sampling network, the output_shape
\* argument read only next to an interpret function
OutputShapeFixedSamples(circuit, return_samples, interpret, output_shape) ==
    IF ~IsNone(interpret)
    THEN IF IsNone(output_shape)
         THEN Raise("QiskitMachineLearningError")
         ELSE Ok(output_shape)
    ELSE Ok(IF return_samples THEN List(<<1>>) ELSE List(<<Pow2(circuit.num_qubits)>>))

\* lines 80-88: the output shape handed to the base class, or the error
OutputShapeOf(circuit, return_samples, interpret, output_shape) ==
    LET shape0 == IF return_samples
                  THEN (IF Truthy(output_shape) THEN output_shape ELSE List(<<1>>))
                  ELSE List(<<Pow2(circuit.num_qubits)>>)
    IN  IF ~IsNone(interpret)
        THEN IF IsNone(output_shape)
             THEN Raise("QiskitMachineLearningError")
             ELSE Ok(output_shape)
        ELSE Ok(shape0)

\* line 104, Gradient().convert(CircuitStateFn(grad_circuit), params): the outcomes
\* of the gradient engine ("" for a gradient operator, else the exception). A
\* parameter the circuit does not hold is rejected by some releases of the
\* engine and differentiated to zero by others.
GradientConvert(circuit, params) ==
    IF Range(params) \subseteq circuit.parameters
    THEN {""}
    ELSE {"", "ValueError"}

\* NeuralNetwork.__init__ / SamplingNeuralNetwork.__init__: store the fields
SamplingNeuralNetwork_init(self, num_inputs, num_weights, dense, return_samples, output_shape) ==
    [tag |-> "CircuitQNN",
     circuit |-> self.circuit,
     input_params |-> self.input_params,
     weight_params |-> self.weight_params,
     interpret |-> self.interpret,
     quantum_instance |-> self.quantum_instance,
     grad_params |-> self.grad_params,
     num_inputs |-> num_inputs,
     num_weights |-> num_weights,
     dense |-> dense,
     return_samples |-> return_samples,
     output_shape |-> output_shape.val]

\* the set of outcomes of CircuitQNN(circuit, input_params, ...): Ok(network) or
\* the exception raised
CircuitQNN_init(circuit, input_params, weight_params, dense, return_samples, interpret, output_shape, quantum_instance) ==
    IF quantum_instance.kind # "QuantumInstance"
    THEN {Raise("AttributeError")}     \* line 71: no is_statevector on None / a backend
    ELSE
    LET shape == OutputShapeOf(circuit, return_samples, interpret, output_shape)
        li == PyList(input_params)
        lw == PyList(weight_params)
    IN  IF shape.err # "" THEN {Raise(shape.err)}
        ELSE IF li.err # "" THEN {Raise(li.err)}
        ELSE IF lw.err # "" THEN {Raise(lw.err)}
        ELSE
        {IF g # "" THEN Raise(g)
         ELSE Ok(SamplingNeuralNetwork_init(
                    [circuit |-> CopyCircuit(circuit, quantum_instance),
                     input_params |-> OrEmpty(input_params),
                     weight_params |-> OrEmpty(weight_params),
                     interpret |-> interpret,
                     quantum_instance |-> quantum_instance,
                     grad_params |-> li.val \o lw.val],
                    Len(OrEmpty(input_params)), Len(OrEmpty(weight_params)),
                    dense, return_samples, shape.val))
         : g \in GradientConvert(circuit, li.val \o lw.val)}

CtorArgs ==
    {a \in [circuit : Circuits, input_params : ParamLists, weight_params : ParamLists,
            dense : BOOLEAN, return_samples : BOOLEAN,
            interpret : UNION {Interprets(n) : n \in 1..MaxQubits},
            output_shape : OutputShapes, quantum_instance : QuantumInstances] :
        a.interpret \in Interprets(a.circuit.num_qubits)}

\* the constructor call: the object under use is the one it returns, if any
Construct ==
    /\ qnn = NoNet
    /\ call.op = "none"
    /\ \E a \in CtorArgs :
         \E r \in CircuitQNN_init(a.circuit, a.input_params, a.weight_params, a.dense,
                                  a.return_samples, a.interpret, a.output_shape,
                                  a.quantum_instance) :
            /\ call' = Call("CircuitQNN", a, r)
            /\ qnn' = IF r.err = "" THEN r.val ELSE NoNet
    /\ UNCHANGED <<backend_options, ctx, stats>>

---------------------------------------------------------------------------
(* Numbers: v / shots as an exact rational <<numerator, denominator>> *)

RECURSIVE Gcd(_, _)
Gcd(a, b) == IF b = 0 THEN a ELSE Gcd(b, a % b)

Abs(x) == IF x < 0 THEN -x ELSE x

Rat(n, d) == LET g == Gcd(Abs(n), d) IN <<n \div g, d \div g>>
RatZero == <<0, 1>>
RatAdd(x, y) == Rat(x[1] * y[2] + y[1] * x[2], x[2] * y[2])

RECURSIVE RatSetSum(_, _)
\* the sum of the rationals f[x] over x in S
RatSetSum(f, S) ==
    IF S = {} THEN RatZero
    ELSE LET x == CHOOSE y \in S : TRUE IN RatAdd(f[x], RatSetSum(f, S \ {x}))

---------------------------------------------------------------------------
(* Bitstrings: int(b, 2) *)

Bitstrings(n) == [1..n -> {0, 1}]

RECURSIVE Int2(_)
\* int(b, 2): the most significant bit first
Int2(b) == IF b = <<>> THEN 0 ELSE 2 * Int2(SubSeq(b, 1, Len(b) - 1)) + b[Len(b)]

---------------------------------------------------------------------------
(* Arrays: numpy.ndarray and sparse.DOK *)

RECURSIVE SeqMax(_)
SeqMax(s) == IF s = <<>> THEN 0
             ELSE LET m == SeqMax(Tail(s)) IN IF Head(s) > m THEN Head(s) ELSE m

\* all index tuples of an array of the given shape (0-based)
Indices(shape) ==
    {idx \in [1..Len(shape) -> 0..(SeqMax(shape) - 1)] :
        \A i \in 1..Len(shape) : idx[i] < shape[i]}

\* np.zeros(shape): every element stored; DOK(shape): no element stored
Zeros(shape, zero) ==
    [tag |-> "ndarray", shape |-> shape, stored |-> Indices(shape),
     data |-> [idx \in Indices(shape) |-> zero]]
DOK(shape) ==
    [tag |-> "DOK", shape |-> shape, stored |-> {}, data |-> [idx \in {} |-> 0]]

\* the element at idx (the fill value 0 of a DOK where none is stored)
At(arr, idx, zero) == IF idx \in arr.stored THEN arr.data[idx] ELSE zero

\* np.prod(arr.shape)
RECURSIVE SeqProd(_)
SeqProd(s) == IF s = <<>> THEN 1 ELSE Head(s) * SeqProd(Tail(s))

\* The elements an index expression arr[i1, .., im, key] selects, or the error.
\* An int key indexes one more axis; a tuple key is a sequence inside the index
\* tuple, which numpy reads as an advanced (fancy) index on that one axis: it
\* selects every position the tuple lists. Axes after the indexed ones are taken
\* whole.
Select(shape, lead, key) ==
    LET m == Len(lead) + 1 IN
    IF m > Len(shape) THEN Raise("IndexError")
    ELSE IF \E i \in 1..Len(lead) : lead[i] >= shape[i] THEN Raise("IndexError")
    ELSE IF \E j \in DOMAIN key.val : key.val[j] >= shape[m] THEN Raise("IndexError")
    ELSE [err |-> "",
          val |-> {idx \in Indices(shape) :
                      /\ \A i \in 1..Len(lead) : idx[i] = lead[i]
                      /\ idx[m] \in Range(key.val)}]

\* whether an index expression names one element with integers only
FullIntIndex(shape, lead, key) == key.kind = "int" /\ Len(lead) + 1 = Len(shape)

\* arr[lead.., key] = value. ndarray: every selected element. DOK.__setitem__
\* takes integers and slices only; it keeps no entry for a value equal to the
\* fill value 0 and drops the entry the key had.
SetItem(arr, lead, key, value) ==
    IF arr.tag = "DOK" /\ key.kind # "int" THEN Raise("IndexError")
    ELSE Bind(Select(arr.shape, lead, key),
          LAMBDA sel :
            IF sel.err # "" THEN Raise(sel.err)
            ELSE IF arr.tag = "DOK" /\ value = 0
            THEN [err |-> "",
                  val |-> [arr EXCEPT
                            !.stored = arr.stored \ sel.val,
                            !.data = [idx \in arr.stored \ sel.val |-> arr.data[idx]]]]
            ELSE [err |-> "",
                  val |-> [arr EXCEPT
                            !.stored = arr.stored \cup sel.val,
                            !.data = [idx \in arr.stored \cup sel.val |->
                                        IF idx \in sel.val THEN value
                                        ELSE arr.data[idx]]]])

\* arr[lead.., key] += value, which is arr[..] = arr[..] + value: a read of the
\* selection, an addition, a write. DOK.__getitem__ normalizes the index
\* against the shape first (IndexError) and then takes a full integer index
\* only; the write keeps no entry for a sum equal to the fill value.
IAddItem(arr, lead, key, value) ==
    Bind(Select(arr.shape, lead, key),
         LAMBDA sel :
            IF sel.err # "" THEN Raise(sel.err)
            ELSE IF arr.tag = "DOK" /\ ~FullIntIndex(arr.shape, lead, key)
            THEN Raise("NotImplementedError")
            ELSE LET drop == IF arr.tag = "DOK"
                             THEN {idx \in sel.val :
                                     RatAdd(At(arr, idx, RatZero), value) = RatZero}
                             ELSE {}
                     keep == (arr.stored \cup sel.val) \ drop
                 IN  [err |-> "",
                      val |-> [arr EXCEPT
                                !.stored = keep,
                                !.data = [idx \in keep |->
                                            IF idx \in sel.val
                                            THEN RatAdd(At(arr, idx, RatZero), value)
                                            ELSE arr.data[idx]]]])

---------------------------------------------------------------------------
(* The backend: binding and execution *)

Values == {0, 1}

\* the last position of p in the list s
LastIndex(s, p) == CHOOSE i \in DOMAIN s : s[i] = p /\ \A j \in DOMAIN s : s[j] = p => j <= i

\* lines 156-157: {p: input_data[i]} updated with {p: weights[i]} (the weights
\* win a name listed twice); an IndexError when a vector is too short
ParamValues(net, input_data, weights) ==
    IF Len(input_data) < Len(net.input_params) \/ Len(weights) < Len(net.weight_params)
    THEN Raise("IndexError")
    ELSE [err |-> "",
          val |-> [p \in Range(net.input_params) \cup Range(net.weight_params) |->
                    IF p \in Range(net.weight_params)
                    THEN weights[LastIndex(net.weight_params, p)]
                    ELSE input_data[LastIndex(net.input_params, p)]]]

\* the counts of a run: how often each bitstring was measured
Tally(memory) ==
    [b \in Range(memory) |-> Cardinality({i \in DOMAIN memory : memory[i] = b})]

\* result.get_counts() for the shots in memory: a dict, kept as the sequence of
\* its items <<bitstring, count>> in the order the backend lists them. The code
\* asks for no order, so every order of the items is a dict the run can return.
CountsOf(memory) ==
    LET t == Tally(memory)
        n == Cardinality(DOMAIN t)
    IN  {[i \in 1..n |-> <<p[i], t[p[i]]>>] :
            p \in {q \in [1..n -> DOMAIN t] : \A i, j \in 1..n : q[i] = q[j] => i = j}}

\* the length of the measured bitstrings
BitLen(net) ==
    IF net.circuit.num_clbits = 0 THEN net.circuit.num_qubits ELSE net.circuit.num_clbits

\* the per-shot outcomes a run can measure
Memories(net) == UNION {[1..s -> Bitstrings(BitLen(net))] : s \in 1..MaxShots}

\* the outcomes of a run that executes: the shots and the counts dict
Results(net) ==
    UNION {{[memory |-> m, counts |-> c] : c \in CountsOf(m)} : m \in Memories(net)}

\* what a run that raises leaves to read
NoResult == [memory |-> <<>>, counts |-> <<>>]

\* the counts dicts of the runs that execute
CountsDicts(net) == UNION {CountsOf(m) : m \in Memories(net)}

\* quantum_instance.execute(circuit.bind_parameters(param_values)): the exception
\* it leaves with ("" when it returns). Binding a parameter the circuit does
\* not hold is a CircuitError, a circuit with a parameter left free cannot be
\* run, and the backend itself may fail.
ExecuteErrors(net, pnames) ==
    IF ~(pnames \subseteq net.circuit.parameters) THEN {"CircuitError"}
    ELSE IF net.circuit.parameters # pnames THEN {"QiskitError"}
    ELSE {"", "BackendError"}

---------------------------------------------------------------------------
(* CircuitQNN._sample *)

\* key = int(b, 2), remapped by interpret when there is one
\* whether quantum_instance.execute was entered: its argument
\* circuit.bind_parameters(param_values) is evaluated first, and a CircuitError
\* there (a parameter that is not in the circuit) leaves before the call
ExecuteEntered(exec_err) == exec_err \notin {"not run", "CircuitError"}

KeyOf(net, k) == IF IsNone(net.interpret) THEN IntKey(k) ELSE net.interpret.table[k]

\* backend_options.get('memory'): None when the option is not set
OptGet(opts) == IF opts.memory = "absent" THEN "None" ELSE opts.memory

\* samples[0, i, :] = sample: an int fills the row; a tuple is an array of its
\* length, broadcast along the last axis of the row (a ValueError when the
\* lengths differ)
AssignRow(samples, i, sample) ==
    LET shape == samples.shape
        last == shape[Len(shape)]
        row == {idx \in samples.stored : idx[1] = 0 /\ idx[2] = i}
    IN  IF sample.kind = "tuple" /\ Len(sample.val) # last /\ Len(sample.val) # 1
        THEN Raise("ValueError")
        ELSE [err |-> "",
              val |-> [samples EXCEPT !.data =
                        [idx \in samples.stored |->
                            IF idx \in row
                            THEN (IF Len(sample.val) = 1 THEN sample.val[1]
                                  ELSE sample.val[idx[Len(shape)] + 1])
                            ELSE samples.data[idx]]]]

RECURSIVE FillSamples(_, _, _, _)
\* lines 146-150: for i, b in enumerate(memory)
FillSamples(net, samples, memory, i) ==
    IF i >= Len(memory) THEN [err |-> "", val |-> samples]
    ELSE Bind(AssignRow(samples, i, KeyOf(net, Int2(memory[i + 1]))),
              LAMBDA r : IF r.err # "" THEN Raise(r.err)
                         ELSE FillSamples(net, r.val, memory, i + 1))

\* _sample(input_data, weights) on backend options opts, when the run leaves
\* with exec_err or returns the per-shot memory: the outcome and the backend
\* options the call leaves behind
CircuitQNN_sample(net, input_data, weights, opts, exec_err, memory) ==
    LET pv == ParamValues(net, input_data, weights)
        orig_memory == OptGet(opts)
    IN  IF net.quantum_instance.is_statevector
        THEN [out |-> Raise("QiskitMachineLearningError"), opts |-> opts]
        ELSE IF pv.err # "" THEN [out |-> Raise(pv.err), opts |-> opts]
        ELSE IF exec_err # ""
        THEN [out |-> Raise(exec_err), opts |-> [opts EXCEPT !.memory = "True"]]
        ELSE [out |-> FillSamples(net,
                        Zeros(<<1, Len(memory)>> \o net.output_shape, 0), memory, 0),
              opts |-> [opts EXCEPT !.memory = orig_memory]]

---------------------------------------------------------------------------
(* CircuitQNN._probabilities *)

RECURSIVE AccumulateProb(_, _, _, _)
\* lines 173-177: for b, v in counts.items(): prob[0, key] += v / shots, the
\* items taken in the order of the dict
AccumulateProb(net, prob, shots, items) ==
    IF items = <<>> THEN [err |-> "", val |-> prob]
    ELSE LET b == Head(items)[1]
             v == Head(items)[2]
         IN
         Bind(IAddItem(prob, <<0>>, KeyOf(net, Int2(b)), Rat(v, shots)),
              LAMBDA r : IF r.err # "" THEN Raise(r.err)
                         ELSE AccumulateProb(net, r.val, shots, Tail(items)))

\* _probabilities(input_data, weights) when the run leaves with exec_err or
\* returns the dict counts
CircuitQNN_probabilities(net, input_data, weights, exec_err, counts) ==
    LET pv == ParamValues(net, input_data, weights) IN
    IF pv.err # "" THEN Raise(pv.err)
    ELSE IF exec_err # "" THEN Raise(exec_err)
    ELSE LET shots == SeqSum([j \in DOMAIN counts |-> counts[j][2]])
             shape == <<1>> \o net.output_shape
             prob == IF net.dense THEN Zeros(shape, RatZero) ELSE DOK(shape)
         IN  AccumulateProb(net, prob, shots, counts)

Vectors == SeqsUpTo(Values, MaxParams)

---------------------------------------------------------------------------
(* CircuitQNN._probability_gradients *)

\* lines 189-190: the tensors the gradient engine can evaluate to, indexed
\* [parameter][raw outcome], each entry a complex number <<re, im>>
GradTensors(net) ==
    {[r \in 0..(Len(net.grad_params) - 1) |->
        [k \in 0..(Pow2(net.circuit.num_qubits) - 1) |->
            <<(((s + 1) * (k + 1) + 2 * r) % 5) - 2, (s + r + k) % 2>>]] : s \in {0, 1, 2}}

\* np.real(z)
Real(z) == z[1]

\* d.get(key, 0.0) on a dict kept as the sequence of its items in insertion order
DictGet(d, key) ==
    IF \E j \in DOMAIN d : d[j][1] = key
    THEN d[CHOOSE j \in DOMAIN d : d[j][1] = key][2]
    ELSE 0

\* d[key] = value: a new key is appended, a known key keeps its place
DictSet(d, key, value) ==
    IF \E j \in DOMAIN d : d[j][1] = key
    THEN [j \in DOMAIN d |-> IF d[j][1] = key THEN <<key, value>> ELSE d[j]]
    ELSE Append(d, <<key, value>>)

RECURSIVE GradDict(_, _, _, _)
\* lines 197-202 and 208-213: for k in range(2 ** num_qubits):
\*     d[key] = d.get(key, 0.0) + np.real(grad[row][k])
GradDict(net, grad_row, k, d) ==
    IF k >= Pow2(net.circuit.num_qubits) THEN d
    ELSE LET key == KeyOf(net, k) IN
         Bind(DictSet(d, key, DictGet(d, key) + Real(grad_row[k])),
              LAMBDA d2 : GradDict(net, grad_row, k + 1, d2))

RECURSIVE FillGradRow(_, _, _)
\* lines 231-232 and 235-236: for k, grad in d.items(): arr[0, i, k] = grad
FillGradRow(arr, i, items) ==
    IF items = <<>> THEN [err |-> "", val |-> arr]
    ELSE Bind(SetItem(arr, <<0, i>>, Head(items)[1], Head(items)[2]),
              LAMBDA r : IF r.err # "" THEN Raise(r.err)
                         ELSE FillGradRow(r.val, i, Tail(items)))

RECURSIVE FillGrad(_, _, _, _, _, _)
\* lines 230-236: the rows first .. first + n - 1 of grad into arr
FillGrad(net, arr, grad, first, n, i) ==
    IF i >= n THEN [err |-> "", val |-> arr]
    ELSE Bind(FillGradRow(arr, i, GradDict(net, grad[first + i], 0, <<>>)),
              LAMBDA r : IF r.err # "" THEN Raise(r.err)
                         ELSE FillGrad(net, r.val, grad, first, n, i + 1))

\* the arrays with None for a component without parameters
GradArrayOrNone(net, n) ==
    IF n = 0 THEN None
    ELSE IF net.dense
    THEN Zeros(<<1, n>> \o net.output_shape, 0)
    ELSE DOK(<<1, n>> \o net.output_shape)

\* lines 215-228: the zero array a gradient is written into
GradArray(net, n) ==
    IF net.dense \/ n = 0
    THEN Zeros(<<1, n>> \o net.output_shape, 0)
    ELSE DOK(<<1, n>> \o net.output_shape)

\* _probability_gradients(input_data, weights) when the gradient engine
\* evaluates to grad: Ok of the pair (input_grad, weights_grad), or the
\* exception
CircuitQNN_probability_gradients(net, input_data, weights, grad) ==
    LET pv == ParamValues(net, input_data, weights) IN
    IF pv.err # "" THEN Raise(pv.err)
    ELSE Bind(<<FillGrad(net, GradArray(net, net.num_inputs), grad,
                         0, net.num_inputs, 0),
                FillGrad(net, GradArray(net, net.num_weights), grad,
                         net.num_inputs, net.num_weights, 0)>>,
              LAMBDA g :
                IF g[1].err # "" THEN Raise(g[1].err)
                ELSE IF g[2].err # "" THEN Raise(g[2].err)
                ELSE [err |-> "",
                      val |-> [input_grad |-> g[1].val, weights_grad |-> g[2].val]])

ProbabilityGradients ==
    /\ qnn # NoNet
    /\ call.op = "none"
    /\ \E input_data \in Vectors, weights \in Vectors, grad \in GradTensors(qnn) :
            call' = Call("_probability_gradients",
                         [input_data |-> input_data, weights |-> weights, grad |-> grad],
                         CircuitQNN_probability_gradients(qnn, input_data, weights, grad))
    /\ UNCHANGED <<qnn, backend_options, ctx, stats>>

---------------------------------------------------------------------------
(* SamplingNeuralNetwork.forward / backward: the dispatch on return_samples *)

\* forward(input_data, weights): samples, or probabilities, of the run's result
\* (its shots and its counts dict)
SamplingNeuralNetwork_forward(net, input_data, weights, opts, exec_err, result) ==
    IF net.return_samples
    THEN CircuitQNN_sample(net, input_data, weights, opts, exec_err, result.memory)
    ELSE [out |-> CircuitQNN_probabilities(net, input_data, weights, exec_err,
                                           result.counts),
          opts |-> opts]

\* backward(input_data, weights): (None, None) for samples, else the
\* probability gradients
SamplingNeuralNetwork_backward(net, input_data, weights, grad) ==
    IF net.return_samples
    THEN [err |-> "", val |-> [input_grad |-> None, weights_grad |-> None]]
    ELSE CircuitQNN_probability_gradients(net, input_data, weights, grad)

---------------------------------------------------------------------------
(* TorchConnector *)

\* line 121: input if input is not None else Tensor([])
TorchInput(input) == IF IsNone(input) THEN <<>> ELSE input.val

\* lines 54-66, after the shape check: qnn.forward, the conversion of its
\* result to a tensor (a sparse array does not convert), the context saved
TorchForwardBody(net, input, weights, opts, exec_err, result) ==
    Bind(SamplingNeuralNetwork_forward(net, input, weights, opts, exec_err, result),
         LAMBDA r :
            IF r.out.err # ""
            THEN [out |-> r.out, opts |-> r.opts, saved |-> FALSE]
            ELSE IF r.out.val.tag = "DOK"
            THEN [out |-> Raise("RuntimeError"), opts |-> r.opts, saved |-> FALSE]
            ELSE [out |-> r.out, opts |-> r.opts, saved |-> TRUE])

\* a connector that lets every input through
NoShapeCheck(net, input) == FALSE

\* lines 54-57 and 82-85: input.shape[-1] != qnn.num_inputs
ShapeMismatch(net, input) == Len(input) # net.num_inputs

\* _TorchNNFunction.forward(ctx, input, weights, qnn): the outcome, the backend
\* options left behind, whether the context was saved, and how often
\* qnn.forward and the backend were entered
TorchForward(net, input, weights, opts, exec_err, result) ==
    IF ShapeMismatch(net, input)
    THEN [out |-> Raise("QiskitMachineLearningError"), opts |-> opts, saved |-> FALSE,
          forward |-> 0, execute |-> 0]
    ELSE Bind(TorchForwardBody(net, input, weights, opts, exec_err, result),
              LAMBDA b : [out |-> b.out, opts |-> b.opts, saved |-> b.saved,
                          forward |-> 1,
                          execute |-> IF ExecuteEntered(exec_err) THEN 1 ELSE 0])

\* the weights of the connector: a vector of num_weights values (line 111)
ConnectorWeights(net) == [1..net.num_weights -> Values]

Forward ==
    /\ qnn # NoNet
    /\ call.op = "none"
    /\ \E arg \in {None} \cup {List(v) : v \in Vectors}, weights \in ConnectorWeights(qnn) :
         LET input == TorchInput(arg)
             pv == ParamValues(qnn, input, weights)
             runs == /\ ~ShapeMismatch(qnn, input)
                     /\ pv.err = ""
                     /\ ~(qnn.return_samples /\ qnn.quantum_instance.is_statevector)
         IN
         \E e \in (IF runs THEN ExecuteErrors(qnn, DOMAIN pv.val) ELSE {"not run"}) :
         \E rs \in (IF e # "" THEN {NoResult} ELSE Results(qnn)) :
         \E r \in {TorchForward(qnn, input, weights, backend_options, e, rs)} :
            /\ call' = Call("forward",
                            [input |-> input, weights |-> weights, exec_err |-> e,
                             memory |-> rs.memory, counts |-> rs.counts],
                            r.out)
            /\ backend_options' = r.opts
            /\ ctx' = IF r.saved
                      THEN [saved |-> TRUE, input |-> input, weights |-> weights]
                      ELSE ctx
            /\ stats' = [forward |-> r.forward, backward |-> 0, execute |-> r.execute]
    /\ UNCHANGED qnn

\* grad_output.float() * Tensor(input_grad): element-wise, grad_output
\* broadcast over the parameter axis
MulBroadcast(grad_output, g) ==
    [g EXCEPT !.data = [idx \in g.stored |->
                            grad_output[<<0>> \o SubSeq(idx, 3, Len(idx))] * g.data[idx]]]

\* grad_output.float() @ Tensor(weights_grad): a batched matrix product of the
\* last two axes of each; a RuntimeError when the inner sizes differ
MatMul(grad_output, go_shape, g) ==
    LET n == Len(go_shape)
        rows == go_shape[n - 1]
        inner == go_shape[n]
        gn == Len(g.shape)
        cols == g.shape[gn]
        batch == IF n = 2 THEN <<g.shape[1]>> ELSE <<g.shape[1], g.shape[2]>>
        shape == batch \o <<rows, cols>>
    IN  IF g.shape[gn - 1] # inner THEN Raise("RuntimeError")
        ELSE [err |-> "",
              val |-> [tag |-> "ndarray", shape |-> shape, stored |-> Indices(shape),
                       data |-> [idx \in Indices(shape) |->
                            LET i == idx[Len(shape) - 1]
                                j == idx[Len(shape)]
                                a == [k \in 0..(inner - 1) |->
                                        grad_output[(IF n = 2 THEN <<>> ELSE <<0>>) \o <<i, k>>]
                                        * g.data[SubSeq(idx, 1, Len(batch)) \o <<k, j>>]]
                            IN  SetSum(a, 0..(inner - 1))]]]

\* lines 89-95: the input gradient handed back to autograd
TorchInputGrad(grad_output, input_grad) ==
    IF IsNone(input_grad) THEN [err |-> "", val |-> None]
    ELSE IF SeqProd(input_grad.shape) = 0 THEN [err |-> "", val |-> None]
    ELSE IF input_grad.tag = "DOK" THEN Raise("RuntimeError")
    ELSE [err |-> "", val |-> MulBroadcast(grad_output, input_grad)]

\* lines 96-102: the weight gradient handed back to autograd
TorchWeightsGrad(grad_output, go_shape, weights_grad) ==
    IF IsNone(weights_grad) THEN [err |-> "", val |-> None]
    ELSE IF SeqProd(weights_grad.shape) = 0 THEN [err |-> "", val |-> None]
    ELSE IF weights_grad.tag = "DOK" THEN Raise("RuntimeError")
    ELSE MatMul(grad_output, go_shape, weights_grad)

\* _TorchNNFunction.backward(ctx, grad_output) on the saved input and weights,
\* when the gradient engine evaluates to grad
TorchBackward(net, input, weights, grad_output, go_shape, grad) ==
    IF ShapeMismatch(net, input)
    THEN [out |-> Raise("QiskitMachineLearningError"), backward |-> 0]
    ELSE Bind(SamplingNeuralNetwork_backward(net, input, weights, grad),
          LAMBDA r :
            IF r.err # "" THEN [out |-> Raise(r.err), backward |-> 1]
            ELSE Bind(<<TorchInputGrad(grad_output, r.val.input_grad),
                        TorchWeightsGrad(grad_output, go_shape, r.val.weights_grad)>>,
                  LAMBDA g :
                    IF g[1].err # "" THEN [out |-> Raise(g[1].err), backward |-> 1]
                    ELSE IF g[2].err # "" THEN [out |-> Raise(g[2].err), backward |-> 1]
                    ELSE [out |-> [err |-> "",
                                   val |-> [input_grad |-> g[1].val,
                                            weights_grad |-> g[2].val]],
                          backward |-> 1]))

\* the upstream gradients autograd hands to backward: one value per output entry
GradOutputs(shape) == {[idx \in Indices(shape) |-> c] : c \in {1, 2}}

Backward ==
    /\ qnn # NoNet
    /\ call.op = "none"
    /\ ctx.saved
    /\ LET go_shape == <<1>> \o qnn.output_shape IN
       \E grad_output \in GradOutputs(go_shape), grad \in GradTensors(qnn) :
         \E r \in {TorchBackward(qnn, ctx.input, ctx.weights, grad_output, go_shape, grad)} :
            /\ call' = Call("backward",
                            [input |-> ctx.input, weights |-> ctx.weights,
                             grad_output |-> grad_output, grad |-> grad],
                            r.out)
            /\ stats' = [forward |-> 0, backward |-> r.backward, execute |-> 0]
    /\ ctx' = NoCtx
    /\ UNCHANGED <<qnn, backend_options>>

\* the caller takes the outcome of the last call; the next call can start
Return ==
    /\ call.op # "none"
    /\ call' = NoCall
    /\ stats' = NoStats
    /\ UNCHANGED <<qnn, backend_options, ctx>>

Sample ==
    /\ qnn # NoNet
    /\ call.op = "none"
    /\ \E input_data \in Vectors, weights \in Vectors :
         LET pv == ParamValues(qnn, input_data, weights)
             runs == ~qnn.quantum_instance.is_statevector /\ pv.err = ""
         IN
         \E e \in (IF runs THEN ExecuteErrors(qnn, DOMAIN pv.val) ELSE {"not run"}) :
         \E m \in (IF e # "" THEN {<<>>} ELSE Memories(qnn)) :
         \E r \in {CircuitQNN_sample(qnn, input_data, weights, backend_options, e, m)} :
            /\ call' = Call("_sample",
                            [input_data |-> input_data, weights |-> weights,
                             exec_err |-> e, memory |-> m,
                             orig_memory |-> OptGet(backend_options)],
                            r.out)
            /\ backend_options' = r.opts
            /\ stats' = [stats EXCEPT !.execute = IF ExecuteEntered(e) THEN 1 ELSE 0]
    /\ UNCHANGED <<qnn, ctx>>

Probabilities ==
    /\ qnn # NoNet
    /\ call.op = "none"
    /\ \E input_data \in Vectors, weights \in Vectors :
         LET pv == ParamValues(qnn, input_data, weights) IN
         \E e \in (IF pv.err # "" THEN {pv.err} ELSE ExecuteErrors(qnn, DOMAIN pv.val)) :
         \E c \in (IF e # "" THEN {<<>>} ELSE CountsDicts(qnn)) :
            /\ call' = Call("_probabilities",
                            [input_data |-> input_data, weights |-> weights,
                             exec_err |-> e, counts |-> c],
                            CircuitQNN_probabilities(qnn, input_data, weights, e, c))
            /\ stats' = [stats EXCEPT !.execute =
                            IF pv.err = "" /\ ExecuteEntered(e) THEN 1 ELSE 0]
    /\ UNCHANGED <<qnn, backend_options, ctx>>

InitCtor ==
    /\ qnn = NoNet
    /\ backend_options = [memory |-> "absent"]
    /\ call = NoCall
    /\ ctx = NoCtx
    /\ stats = NoStats

SpecCtor == InitCtor /\ [][Construct]_vars

---------------------------------------------------------------------------
(* Networks under use: constructed over shot-sampling backends from parameter
   lists that partition the circuit's parameters *)

Partitioned(a) ==
    /\ ~IsNone(a.input_params) /\ ~IsNone(a.weight_params)
    /\ Range(a.input_params.val) \cap Range(a.weight_params.val) = {}
    /\ Range(a.input_params.val) \cup Range(a.weight_params.val) = a.circuit.parameters
    /\ Len(a.input_params.val) = Cardinality(Range(a.input_params.val))
    /\ Len(a.weight_params.val) = Cardinality(Range(a.weight_params.val))

\* an output_shape that has one axis per component of the interpreted key
ShapeFits(a) ==
    IF IsNone(a.interpret) THEN IsNone(a.output_shape)
    ELSE /\ ~IsNone(a.output_shape)
         /\ \A k \in DOMAIN a.interpret.table :
               Len(a.interpret.table[k].val) = Len(a.output_shape.val)

\* a sample is stored in a row of the output shape: (1,) unless interpret
\* returns tuples
SampleShapeFits(a) ==
    IF IsNone(a.interpret) THEN IsNone(a.output_shape)
    ELSE ~IsNone(a.output_shape) /\ Len(a.output_shape.val) = 1

UseArgs ==
    {a \in CtorArgs :
        /\ a.quantum_instance.kind = "QuantumInstance"
        /\ ~a.quantum_instance.is_statevector
        /\ a.circuit.num_clbits = 0
        /\ Partitioned(a) /\ ShapeFits(a)}

SampleArgs ==
    {a \in CtorArgs :
        /\ a.quantum_instance.kind = "QuantumInstance"
        /\ a.circuit.num_clbits = 0
        /\ a.return_samples /\ ~a.dense
        /\ Partitioned(a) /\ SampleShapeFits(a)}

Networks(args) ==
    {r.val : r \in {o \in UNION {CircuitQNN_init(a.circuit, a.input_params, a.weight_params,
                                               a.dense, a.return_samples, a.interpret,
                                               a.output_shape, a.quantum_instance) :
                                  a \in args} : o.err = ""}}

InitProb ==
    /\ qnn \in Networks({a \in UseArgs : ~a.return_samples})
    /\ backend_options = [memory |-> "absent"]
    /\ call = NoCall
    /\ ctx = NoCtx
    /\ stats = NoStats

SpecProb == InitProb /\ [][Probabilities \/ Return]_vars

InitGrad ==
    /\ qnn \in Networks({a \in UseArgs : ~a.return_samples})
    /\ backend_options = [memory |-> "absent"]
    /\ call = NoCall
    /\ ctx = NoCtx
    /\ stats = NoStats

SpecGrad == InitGrad /\ [][ProbabilityGradients \/ Return]_vars

\* the networks wrapped by a connector: over single-qubit circuits
TorchArgs == {a \in UseArgs : a.circuit.num_qubits = 1}

InitTorch ==
    /\ qnn \in Networks(TorchArgs)
    /\ backend_options = [memory |-> "absent"]
    /\ call = NoCall
    /\ ctx = NoCtx
    /\ stats = NoStats

SpecTorch == InitTorch /\ [][Forward \/ Backward \/ Return]_vars

MemoryOptions == {"absent", "None", "True", "False"}

InitSample ==
    /\ qnn \in Networks(SampleArgs)
    /\ backend_options \in [memory : MemoryOptions]
    /\ call = NoCall
    /\ ctx = NoCtx
    /\ stats = NoStats

SpecSample == InitSample /\ [][Sample \/ Return]_vars

---------------------------------------------------------------------------
(* Loss functions: L2Loss and L1Loss *)

MaxLen == 2

\* An argument of a loss function: a plain Python value (a number, a list, a
\* list of lists) or a numpy array, of rank 0, 1 or 2. The data is kept as a
\* sequence of rows; a rank-0 or rank-1 value is a single row.
LossValues == {-4, 0, 3}

LossShapes ==
    {[rank |-> 0, rows |-> 1, cols |-> 1]}
    \cup {[rank |-> 1, rows |-> 1, cols |-> c] : c \in 1..MaxLen}
    \cup {[rank |-> 2, rows |-> r, cols |-> 1] : r \in 1..MaxLen}

\* predict and target of one shape
LossArgs ==
    UNION {[python : BOOLEAN, shape : {sh},
            predict : [1..sh.rows -> [1..sh.cols -> LossValues]],
            target : [1..sh.rows -> [1..sh.cols -> LossValues]]] : sh \in LossShapes}

\* predict - target, element by element
Diff(a) == [r \in 1..a.shape.rows |->
                [c \in 1..a.shape.cols |-> a.predict[r][c] - a.target[r][c]]]

\* np.sign
Sign(x) == IF x > 0 THEN 1 ELSE IF x < 0 THEN -1 ELSE 0

\* the value of the shape of the argument: a number, a vector, or rows
Shaped(a, m) ==
    IF a.shape.rank = 0 THEN m[1][1] ELSE IF a.shape.rank = 1 THEN m[1] ELSE m

\* the double k units in the last place away from the integer s
Float(s, k) == [tag |-> "float64", near |-> s, ulps |-> k]

\* The integers s up to 200 for which sqrt(s) ** 2 in IEEE doubles is not s: the
\* square of the rounded root lands one unit in the last place below s, or one
\* above. (The rows of LossArgs have sums of squares below 200.)
RoundsDown ==
    {3, 6, 12, 13, 18, 23, 24, 26, 29, 31, 37, 38, 43, 48, 52, 59, 61, 65, 72, 73,
     89, 92, 95, 96, 97, 102, 104, 105, 111, 115, 116, 119, 124, 127, 139, 148,
     149, 152, 153, 163, 172, 186, 192, 193, 197}
RoundsUp ==
    {2, 5, 7, 8, 10, 15, 19, 20, 28, 32, 40, 45, 50, 51, 58, 60, 63, 66, 75, 76,
     77, 78, 80, 82, 87, 94, 106, 107, 109, 112, 113, 117, 122, 123, 125, 128,
     133, 160, 166, 170, 180, 185, 200}

\* sqrt(s) ** 2 in doubles, for an integer s: s itself where the round trip is
\* exact (17.999999999999996 is Float(18, -1))
SqrtSquared(s) ==
    IF s \in RoundsDown THEN Float(s, -1)
    ELSE IF s \in RoundsUp THEN Float(s, 1)
    ELSE s

\* np.linalg.norm(x) ** 2 of one row: the root of the sum of squares, squared
SquaredNorm(row) == SqrtSquared(SeqSum([c \in DOMAIN row |-> row[c] * row[c]]))

\* np.linalg.norm(x, ord=1) of one row: the sum of absolute values
Norm1(row) == SeqSum([c \in DOMAIN row |-> Abs(row[c])])

\* L2Loss.evaluate: np.array(..) takes any value; rank <= 1 is one norm, a
\* higher rank a norm per row. No rank reaches the raise of line 35.
L2Loss_evaluate(a) ==
    IF a.shape.rank <= 1
    THEN [err |-> "", val |-> SquaredNorm(Diff(a)[1])]
    ELSE IF a.shape.rank > 1
    THEN [err |-> "", val |-> [r \in 1..a.shape.rows |-> SquaredNorm(Diff(a)[r])]]
    ELSE Raise("QiskitMachineLearningError")

\* L2Loss.gradient: 2 * (predict - target)
L2Loss_gradient(a) ==
    [err |-> "",
     val |-> Shaped(a, [r \in 1..a.shape.rows |->
                            [c \in 1..a.shape.cols |-> 2 * Diff(a)[r][c]]])]

\* L1Loss.evaluate: predict.shape is read off the argument as given (a plain
\* Python value has none); np.linalg.norm with ord=1 and no axis takes one or
\* two dimensions. No rank reaches the raise of line 51.
L1Loss_evaluate(a) ==
    IF a.python THEN Raise("AttributeError")
    ELSE IF a.shape.rank <= 1
    THEN (IF a.shape.rank = 0 THEN Raise("ValueError")
          ELSE [err |-> "", val |-> Norm1(Diff(a)[1])])
    ELSE IF a.shape.rank > 1
    THEN [err |-> "", val |-> [r \in 1..a.shape.rows |-> Norm1(Diff(a)[r])]]
    ELSE Raise("QiskitMachineLearningError")

\* L1Loss.gradient: np.linalg.sign is looked up on both branches, and
\* numpy.linalg has no attribute sign
L1Loss_gradient(a) ==
    IF a.shape.rank <= 1 THEN Raise("AttributeError")
    ELSE IF a.shape.rank > 1 THEN Raise("AttributeError")
    ELSE Raise("QiskitMachineLearningError")

L2Evaluate ==
    /\ call.op = "none"
    /\ \E a \in LossArgs : call' = Call("L2Loss.evaluate", a, L2Loss_evaluate(a))
    /\ UNCHANGED <<qnn, backend_options, ctx, stats>>

L2Gradient ==
    /\ call.op = "none"
    /\ \E a \in LossArgs : call' = Call("L2Loss.gradient", a, L2Loss_gradient(a))
    /\ UNCHANGED <<qnn, backend_options, ctx, stats>>

L1Evaluate ==
    /\ call.op = "none"
    /\ \E a \in LossArgs : call' = Call("L1Loss.evaluate", a, L1Loss_evaluate(a))
    /\ UNCHANGED <<qnn, backend_options, ctx, stats>>

L1Gradient ==
    /\ call.op = "none"
    /\ \E a \in LossArgs : call' = Call("L1Loss.gradient", a, L1Loss_gradient(a))
    /\ UNCHANGED <<qnn, backend_options, ctx, stats>>

SpecLoss == InitCtor /\ [][L2Evaluate \/ L2Gradient \/ L1Evaluate \/ L1Gradient \/ Return]_vars

---------------------------------------------------------------------------
(* Claims about the constructor *)

Constructed == call.op = "CircuitQNN"

\* the constructor got as far as the parameter lists
ReachesParams ==
    /\ call.arg.quantum_instance.kind = "QuantumInstance"
    /\ ~IsNone(call.arg.input_params) /\ ~IsNone(call.arg.weight_params)
    /\ ~(~IsNone(call.arg.interpret) /\ IsNone(call.arg.output_shape))

\* C5 (as claimed): construction fails whenever input_params and weight_params
\* do not exactly partition the circuit's free parameters.
C5_NonPartitionRejected ==
    (Constructed /\ ReachesParams /\ ~Partitioned(call.arg)) => call.out.err # ""

\* C6: constructing with an interpret function and output_shape = None fails
\* and produces no network, for every dense and return_samples; the error is
\* QiskitMachineLearningError whenever the constructor is given a
\* QuantumInstance (it reads quantum_instance.is_statevector first).
C6_InterpretNeedsOutputShape ==
    (Constructed /\ ~IsNone(call.arg.interpret) /\ IsNone(call.arg.output_shape))
    => /\ call.out.err # ""
       /\ qnn = NoNet
       /\ call.arg.quantum_instance.kind = "QuantumInstance"
            => call.out.err = "QiskitMachineLearningError"

C6_Witness ==
    /\ Constructed
    /\ ~IsNone(call.arg.interpret) /\ IsNone(call.arg.output_shape)
    /\ call.arg.dense /\ call.arg.return_samples
    /\ call.arg.quantum_instance.kind = "QuantumInstance"
    /\ call.out.err = "QiskitMachineLearningError"
    /\ qnn = NoNet

\* C8 (as claimed): without an interpret function the output shape is
\* (2^num_qubits,) for probabilities and (1,) for samples, whatever
\* output_shape was passed.
C8_NaturalOutputShape ==
    (Constructed /\ call.out.err = "" /\ IsNone(call.arg.interpret))
    => qnn.output_shape = IF call.arg.return_samples
                          THEN <<1>>
                          ELSE <<Pow2(call.arg.circuit.num_qubits)>>

\* C8 (amended): without an interpret function the output shape is
\* (2^num_qubits,) for probabilities whatever output_shape was passed; for
\* samples it is the output_shape passed, and (1,) when none (or an empty one)
\* was passed.
C8_OutputShapeWithoutInterpret ==
    (Constructed /\ call.out.err = "" /\ IsNone(call.arg.interpret))
    => qnn.output_shape = IF ~call.arg.return_samples
                          THEN <<Pow2(call.arg.circuit.num_qubits)>>
                          ELSE IF Truthy(call.arg.output_shape)
                          THEN call.arg.output_shape.val
                          ELSE <<1>>

C8_Witness ==
    /\ Constructed /\ call.out.err = ""
    /\ IsNone(call.arg.interpret)
    /\ call.arg.return_samples
    /\ call.arg.output_shape = List(<<2>>)
    /\ qnn.output_shape = <<2>>

\* a parameter list was left at its default, on a constructor call that
\* passes the backend and output shape checks
ListOmitted ==
    /\ Constructed
    /\ call.arg.quantum_instance.kind = "QuantumInstance"
    /\ ~(~IsNone(call.arg.interpret) /\ IsNone(call.arg.output_shape))
    /\ IsNone(call.arg.input_params) \/ IsNone(call.arg.weight_params)

\* C13 (as claimed): constructing with input_params and/or weight_params left
\* at None succeeds and treats the omitted list as empty: num_inputs = 0
\* (num_weights = 0), the stored list is empty and the gradient operator's
\* parameter list is the stored lists joined.
C13_OmittedListsAreEmpty ==
    ListOmitted =>
        /\ call.out.err = ""
        /\ IsNone(call.arg.input_params)
            => (qnn.num_inputs = 0 /\ qnn.input_params = <<>>)
        /\ IsNone(call.arg.weight_params)
            => (qnn.num_weights = 0 /\ qnn.weight_params = <<>>)
        /\ qnn.grad_params = qnn.input_params \o qnn.weight_params

---------------------------------------------------------------------------
(* Claims about the connector *)

\* the last call was a forward on an input of another length than num_inputs
ForwardMismatch == call.op = "forward" /\ Len(call.arg.input) # qnn.num_inputs

\* C7: a forward whose input length differs from qnn.num_inputs fails with the
\* dimension-mismatch error (QiskitMachineLearningError) before qnn.forward or
\* the backend is entered and leaves the autograd context as it was; backward
\* makes the same check before qnn.backward on whatever input it is handed
\* (stated of the network a behaviour starts with: no step changes qnn).
C7_MismatchFailsEarly ==
    /\ [][ForwardMismatch' =>
            /\ call'.out.err = "QiskitMachineLearningError"
            /\ stats'.forward = 0 /\ stats'.execute = 0
            /\ ctx' = ctx
            /\ backend_options' = backend_options]_vars
    /\ (qnn # NoNet =>
            \A input \in Vectors, weights \in ConnectorWeights(qnn) :
                Len(input) # qnn.num_inputs =>
                    \A grad \in GradTensors(qnn) :
                    \A grad_output \in GradOutputs(<<1>> \o qnn.output_shape) :
                        LET r == TorchBackward(qnn, input, weights, grad_output,
                                               <<1>> \o qnn.output_shape, grad)
                        IN  r.out.err = "QiskitMachineLearningError" /\ r.backward = 0)

\* a failed forward after one that saved its inputs: the saved context stays
C7_Witness ==
    /\ ForwardMismatch
    /\ call.out.err = "QiskitMachineLearningError"
    /\ stats.forward = 0 /\ stats.execute = 0
    /\ ctx.saved

---------------------------------------------------------------------------
(* Claims about the loss functions *)

\* the element-wise sign of predict - target
SignOfDiff(a) == [c \in 1..a.shape.cols |-> Sign(Diff(a)[1][c])]

\* C9 (as claimed): for equal-length 1-D integer vectors, L1Loss.gradient
\* returns the element-wise sign of predict - target and L1Loss.evaluate the
\* sum of the absolute differences.
C9_L1LossOnVectors ==
    /\ (call.op = "L1Loss.gradient" /\ call.arg.shape.rank = 1)
        => (call.out.err = "" /\ call.out.val = SignOfDiff(call.arg))
    /\ (call.op = "L1Loss.evaluate" /\ call.arg.shape.rank = 1)
        => (call.out.err = "" /\ call.out.val = Norm1(Diff(call.arg)[1]))

\* L1Loss.evaluate on numpy vectors is the sum of the absolute differences.
L1EvaluateOnArrays ==
    (call.op = "L1Loss.evaluate" /\ call.arg.shape.rank = 1 /\ ~call.arg.python)
    => (call.out.err = "" /\ call.out.val = Norm1(Diff(call.arg)[1]))

\* C10 (as claimed): L2Loss.evaluate and L1Loss.evaluate fail with an
\* invalid-shape error on a rank-0 predict instead of returning a value.
C10_Rank0Rejected ==
    (call.op \in {"L2Loss.evaluate", "L1Loss.evaluate"} /\ call.arg.shape.rank = 0)
    => call.out.err = "QiskitMachineLearningError"

---------------------------------------------------------------------------
(* Claims about _sample *)

SampleCalled ==
    /\ call.op = "_sample"
    /\ ~qnn.quantum_instance.is_statevector

\* C1 (as claimed): after every call of _sample on a shot-sampling backend the
\* backend's 'memory' option has the value it had before the call, whether
\* execute returned or raised.
C1_MemoryOptionRestored ==
    SampleCalled => OptGet(backend_options) = call.arg.orig_memory

\* It is restored on the paths where execute returns.
MemoryRestoredOnReturn ==
    (SampleCalled /\ call.arg.exec_err \in {"", "not run"})
    => OptGet(backend_options) = call.arg.orig_memory

---------------------------------------------------------------------------
(* Claims about _probabilities *)

RawOutcomes(net) == 0..(Pow2(BitLen(net)) - 1)

\* the output keys the network's outcomes map to
OutputKeys(net) == {KeyOf(net, k) : k \in RawOutcomes(net)}

\* the coordinate of the output array that an output key names
Coord(lead, key) == lead \o key.val

\* every output key is a coordinate of the output array
KeysInShape(net) ==
    \A K \in OutputKeys(net) :
        /\ Len(K.val) = Len(net.output_shape)
        /\ \A j \in DOMAIN K.val : K.val[j] < net.output_shape[j]

NonInjective(net) ==
    \E j, k \in RawOutcomes(net) : j # k /\ KeyOf(net, j) = KeyOf(net, k)

\* the probability of the raw outcomes that map to output key K, for a counts
\* dict given as its items
RawProbability(net, counts, K) ==
    LET hit == {j \in DOMAIN counts : KeyOf(net, Int2(counts[j][1])) = K}
        n == [j \in DOMAIN counts |-> counts[j][2]]
    IN  Rat(SetSum(n, hit), SetSum(n, DOMAIN counts))

ProbabilitiesRan ==
    /\ call.op = "_probabilities"
    /\ call.arg.exec_err = ""

\* C3 (as claimed): for a non-injective interpret and every count mapping,
\* _probabilities stores at each output key K the sum of count(b) / shots over
\* the raw bitstrings b that interpret maps to K, dense or sparse.
C3_CollidingKeysSummed ==
    (ProbabilitiesRan /\ ~IsNone(qnn.interpret) /\ NonInjective(qnn) /\ KeysInShape(qnn))
    => /\ call.out.err = ""
       /\ \A K \in OutputKeys(qnn) :
             At(call.out.val, Coord(<<0>>, K), RatZero)
                = RawProbability(qnn, call.arg.counts, K)

\* the sum of all entries of an array of rationals
ArraySum(arr) == RatSetSum(arr.data, arr.stored)

\* C4 (as claimed): the entries of the array _probabilities returns sum to 1.
C4_ProbabilitiesSumToOne ==
    (ProbabilitiesRan /\ call.out.err = "") => ArraySum(call.out.val) = <<1, 1>>

\* integer-valued interpret functions (and none): the keys are single ints
IntKeyed(net) == \A K \in OutputKeys(net) : K.kind = "int"

\* For integer output keys the accumulation is the sum the claims describe.
IntKeysSummed ==
    (ProbabilitiesRan /\ IntKeyed(qnn) /\ KeysInShape(qnn))
    => /\ call.out.err = ""
       /\ ArraySum(call.out.val) = <<1, 1>>
       /\ \A K \in OutputKeys(qnn) :
             At(call.out.val, Coord(<<0>>, K), RatZero)
                = RawProbability(qnn, call.arg.counts, K)

\* interpret returns pairs and the output shape has two axes
TupleKeyed(net) ==
    /\ ~IsNone(net.interpret)
    /\ Len(net.output_shape) = 2
    /\ \A K \in OutputKeys(net) : K.kind = "tuple" /\ Len(K.val) = 2

\* C11 (as claimed): when interpret returns pairs (a, b) and output_shape has
\* two axes, _probabilities adds each raw outcome's probability to the single
\* coordinate [0, a, b]: every entry of the result holds the probability of the
\* outcomes mapped to its coordinate, and zero where none is.
C11_TupleKeyIsOneCoordinate ==
    (ProbabilitiesRan /\ TupleKeyed(qnn) /\ KeysInShape(qnn))
    => /\ call.out.err = ""
       /\ \A idx \in Indices(<<1>> \o qnn.output_shape) :
             At(call.out.val, idx, RatZero)
                = RawProbability(qnn, call.arg.counts, TupleKey(Tail(idx)))

---------------------------------------------------------------------------
(* Claims about _probability_gradients *)

GradientsRan ==
    /\ call.op = "_probability_gradients"
    /\ Len(call.arg.input_data) >= qnn.num_inputs
    /\ Len(call.arg.weights) >= qnn.num_weights

\* the sum of Re(grad[row][k]) over the raw outcomes k that map to output key K
RawGradient(net, grad, row, K) ==
    LET hit == {k \in 0..(Pow2(net.circuit.num_qubits) - 1) : KeyOf(net, k) = K}
    IN  SetSum([k \in hit |-> Real(grad[row][k])], hit)

\* C2 (as claimed): for every interpret function, parameter index p and output
\* key K, entry [0, p, K] of the input (weight) gradient is the sum of
\* Re(grad[row][k]) over the raw outcomes k with interpret(k) = K, where row = p
\* (row = num_inputs + p).
C2_GradientsSumPerKey ==
    (GradientsRan /\ KeysInShape(qnn))
    => /\ call.out.err = ""
       /\ \A K \in OutputKeys(qnn) :
            /\ \A p \in 0..(qnn.num_inputs - 1) :
                  At(call.out.val.input_grad, Coord(<<0, p>>, K), 0)
                    = RawGradient(qnn, call.arg.grad, p, K)
            /\ \A p \in 0..(qnn.num_weights - 1) :
                  At(call.out.val.weights_grad, Coord(<<0, p>>, K), 0)
                    = RawGradient(qnn, call.arg.grad, qnn.num_inputs + p, K)

\* For integer output keys the gradients are the per-key sums.
IntKeysGradientsSummed ==
    (GradientsRan /\ IntKeyed(qnn) /\ KeysInShape(qnn))
    => /\ call.out.err = ""
       /\ \A K \in OutputKeys(qnn) :
            /\ \A p \in 0..(qnn.num_inputs - 1) :
                  At(call.out.val.input_grad, Coord(<<0, p>>, K), 0)
                    = RawGradient(qnn, call.arg.grad, p, K)
            /\ \A p \in 0..(qnn.num_weights - 1) :
                  At(call.out.val.weights_grad, Coord(<<0, p>>, K), 0)
                    = RawGradient(qnn, call.arg.grad, qnn.num_inputs + p, K)

\* _probability_gradients returned a pair of gradients
GradientsReturned == GradientsRan /\ call.out.err = ""

\* a dense array of shape (1, 0, *output_shape): it has no entry
EmptyGradient(net, g) ==
    /\ g.tag = "ndarray"
    /\ g.shape = <<1, 0>> \o net.output_shape
    /\ g.stored = {}

\* the gradients the connector's backward hands back for the last call's
\* arguments, for each upstream gradient
BackwardOutcomes ==
    LET go_shape == <<1>> \o qnn.output_shape IN
    {TorchBackward(qnn, call.arg.input_data, call.arg.weights, go, go_shape,
                   call.arg.grad).out : go \in GradOutputs(go_shape)}

\* C12: with num_inputs = 0 (num_weights = 0) the input (weight) gradient that
\* _probability_gradients returns is a dense array of shape
\* (1, 0, *output_shape) without entries, never None, with dense True or
\* False; the connector's backward turns it into None.
C12_EmptyGradientCollapses ==
    GradientsReturned =>
        /\ qnn.num_inputs = 0 =>
            /\ EmptyGradient(qnn, call.out.val.input_grad)
            /\ \A go \in GradOutputs(<<1>> \o qnn.output_shape) :
                  TorchInputGrad(go, call.out.val.input_grad) = [err |-> "", val |-> None]
            /\ \A o \in BackwardOutcomes : o.err = "" => IsNone(o.val.input_grad)
        /\ qnn.num_weights = 0 =>
            /\ EmptyGradient(qnn, call.out.val.weights_grad)
            /\ \A go \in GradOutputs(<<1>> \o qnn.output_shape) :
                  TorchWeightsGrad(go, <<1>> \o qnn.output_shape,
                                   call.out.val.weights_grad) = [err |-> "", val |-> None]
            /\ \A o \in BackwardOutcomes : o.err = "" => IsNone(o.val.weights_grad)

\* a sparse network without inputs: the input gradient is the empty dense
\* array next to a sparse weight gradient
C12_Witness ==
    /\ GradientsReturned
    /\ ~qnn.dense
    /\ qnn.num_inputs = 0 /\ qnn.num_weights > 0
    /\ EmptyGradient(qnn, call.out.val.input_grad)
    /\ call.out.val.weights_grad.tag = "DOK"

====
